---- MODULE Spec2Model ----
(***************************************************************************)
(* Model of agent.py, the generate / save / test / retry loop, and of the  *)
(* regression test tests/test_icici_parser.py that the loop runs on        *)
(* success.                                                                *)
(*                                                                         *)
(* Text (the completion, the saved parser file) is a sequence of tokens;   *)
(* a token is a record [t, tbl]: t names the token and tbl is the table a  *)
(* "P_table" program returns (NoTable for every other token).              *)
(* A table is a pandas DataFrame: column labels, row index labels, one     *)
(* dtype per column and the cells row by row; the cell 0 is NaN.           *)
(***************************************************************************)
EXTENDS Integers, Sequences, FiniteSets, TLC

\* ------------------------------------------------------------------ bounds
MaxRows == 1       \* rows of a table of the universe: 0..MaxRows

\* --------------------------------------------------------------- constants
MaxAttempts == 3   \* range(1, 4)

\* ------------------------------------------------------------------ tables
NoTable == [columns |-> <<>>, index |-> <<>>, dtypes |-> <<>>, rows |-> <<>>]

IsNaN(c) == c = 0

\* df.shape
Shape(df) == <<Len(df.rows), Len(df.columns)>>

\* RangeIndex(n), the row index read_csv gives
RangeIndex(n) == [i \in 1..n |-> i - 1]

\* the comparison of two cells of columns of one dtype: equal values, and
\* NaN in the same location counts as equal
CellEq(a, b) == (IsNaN(a) /\ IsNaN(b)) \/ (~IsNaN(a) /\ ~IsNaN(b) /\ a = b)

\* the mutant: dtypes are not compared
DataFrameEqualsNoDtype(a, b) ==
    /\ a.columns = b.columns
    /\ a.index = b.index
    /\ \A i \in 1..Len(a.rows) : \A j \in 1..Len(a.columns) :
          CellEq(a.rows[i][j], b.rows[i][j])

\* df_pred.equals(df_true): both axes equal (column labels and row index
\* labels, in order), corresponding columns of the same dtype, equal cells
DataFrameEquals(a, b) ==
    /\ a.columns = b.columns
    /\ a.index = b.index
    /\ a.dtypes = b.dtypes
    /\ \A i \in 1..Len(a.rows) : \A j \in 1..Len(a.columns) :
          CellEq(a.rows[i][j], b.rows[i][j])

\* -------------------------------------------------------------------- text
Tok(t) == [t |-> t, tbl |-> NoTable]
Fence == Tok("FENCE")                     \* three backquotes
TagPython == Tok("python")
TagOther == Tok("py")
NL == Tok("\n")
SP == Tok(" ")
Prose == Tok("Here is the parser:")

\* program tokens: a whole module body
MSyntaxError == Tok("M_syntax_error")      \* invalid syntax
MRaise == Tok("M_raise")                   \* the body raises an Exception
MExit == Tok("M_exit")                     \* the body calls sys.exit(1)
MNoParse == Tok("M_no_parse")              \* a valid module without parse
PRaise == Tok("P_raise")                   \* parse raises an Exception
PExit == Tok("P_exit")                     \* parse calls sys.exit(1)
PNone == Tok("P_none")                     \* parse returns None
PTable(df) == [t |-> "P_table", tbl |-> df] \* parse returns df

IsSpace(tok) == tok.t \in {"\n", " "}

RECURSIVE LStrip(_)
LStrip(s) == IF s # <<>> /\ IsSpace(Head(s)) THEN LStrip(Tail(s)) ELSE s

RECURSIVE RStrip(_)
RStrip(s) ==
    IF s # <<>> /\ IsSpace(s[Len(s)]) THEN RStrip(SubSeq(s, 1, Len(s) - 1)) ELSE s

\* str.strip()
Strip(s) == RStrip(LStrip(s))

\* re.search(r"FENCE(?:python)?\n(.*?)FENCE", code, re.DOTALL)
\* where the interior of a match that opens at fence i starts, 0 for none
BodyStart(s, i) ==
    IF i + 1 <= Len(s) /\ s[i + 1] = NL THEN i + 2
    ELSE IF i + 2 <= Len(s) /\ s[i + 1] = TagPython /\ s[i + 2] = NL THEN i + 3
    ELSE 0

\* the fences that can close a match opened at fence i
Closers(s, i) == {k \in BodyStart(s, i)..Len(s) : s[k] = Fence}

MatchesAt(s, i) ==
    /\ s[i] = Fence
    /\ BodyStart(s, i) # 0
    /\ Closers(s, i) # {}

MatchStarts(s) == {i \in 1..Len(s) : MatchesAt(s, i)}

Min(S) == CHOOSE x \in S : \A y \in S : x <= y

\* match.group(1) if match else code
CleanCode(s) ==
    IF MatchStarts(s) = {} THEN s
    ELSE LET i == Min(MatchStarts(s))
         IN SubSeq(s, BodyStart(s, i), Min(Closers(s, i)) - 1)

\* f.write(clean.strip() + "\n")
FileText(code) == Strip(CleanCode(code)) \o <<NL>>

\* the length in bytes of the text a token stands for; a program token
\* stands for one fixed text:
\*   M_syntax_error  def (:
\*   M_raise         raise RuntimeError('x')
\*   M_exit          import sys / sys.exit(1)
\*   M_no_parse      x = 1
\*   P_raise         def parse(pdf_path): / raise ValueError('x')
\*   P_exit          import sys / def parse(pdf_path): / sys.exit(1)
\*   P_none          def parse(pdf_path): / return None
\*   P_table         import pandas as pd / def parse(pdf_path): /
\*                   return pd.DataFrame(<the table>)
TokenBytes(tok) ==
    CASE tok.t \in {"\n", " "} -> 1
      [] tok.t = "FENCE" -> 3
      [] tok.t = "python" -> 6
      [] tok.t = "py" -> 2
      [] tok.t = "Here is the parser:" -> 19
      [] tok.t = "M_syntax_error" -> 6
      [] tok.t = "M_raise" -> 23
      [] tok.t = "M_exit" -> 22
      [] tok.t = "M_no_parse" -> 5
      [] tok.t = "P_raise" -> 46
      [] tok.t = "P_exit" -> 47
      [] tok.t = "P_none" -> 36
      [] tok.t = "P_table" -> 66
      [] OTHER -> 0

RECURSIVE SumSeq(_)
SumSeq(s) == IF s = <<>> THEN 0 ELSE Head(s) + SumSeq(Tail(s))

\* the length of the literal of a table: every column label, dtype name,
\* row label and cell as it is written; a cell is one digit, NaN is nan
TableBytes(df) ==
    SumSeq([j \in 1..Len(df.columns) |->
              Len(df.columns[j]) + Len(df.dtypes[j])
                + SumSeq([i \in 1..Len(df.rows) |->
                            IF IsNaN(df.rows[i][j]) THEN 3 ELSE 1])])
      + Len(df.index)

\* os.stat(path).st_size of a file that holds text
Bytes(text) ==
    SumSeq([i \in 1..Len(text) |-> TokenBytes(text[i]) + TableBytes(text[i].tbl)])

\* ------------------------------------------------------------- file system
\* the files the model follows are those of the two parser packages under
\* ROOT, custom_parser/ and custom_parsers/, with their __pycache__
\* directories; a source file is its text and the whole second of its last
\* write (st_mtime as the loader reads it)
File(text, mtime) == [text |-> text, mtime |-> mtime]

\* os.path.join(ROOT, "custom_parser", f"{target}_parser.py")
ParserPath(target) == [dir |-> "custom_parser", file |-> <<target, "_parser.py">>]

\* os.path.join(pkg, "__init__.py")
InitPath == [dir |-> "custom_parser", file |-> <<"__init__.py">>]

\* PARSER_PATH of the regression test
PARSER_PATH == [dir |-> "custom_parsers", file |-> <<"icici", "_parser.py">>]

\* open(path, "w").write(text) at the second now
WriteFile(files, path, text, now) ==
    [q \in DOMAIN files \cup {path} |-> IF q = path THEN File(text, now) ELSE files[q]]

\* ensure_custom_parser(): makedirs, and an empty __init__.py unless there
ensure_custom_parser(files, now) ==
    IF InitPath \in DOMAIN files THEN files ELSE WriteFile(files, InitPath, <<>>, now)

\* --------------------------------------------------- the candidate module
\* the text of a token line by line: a token of several lines is its lines
\* with the line ends and the blanks of the indentation between them
Def == Tok("def parse(pdf_path):")
ImportSys == Tok("import sys")
ImportPd == Tok("import pandas as pd")
SysExit == Tok("sys.exit(1)")
RaiseValueError == Tok("raise ValueError('x')")
ReturnNone == Tok("return None")
ReturnTable(df) == [t |-> "return pd.DataFrame", tbl |-> df]
Indent == <<SP, SP, SP, SP>>

TokenLines(tok) ==
    CASE tok.t = "M_exit" -> <<ImportSys, NL, SysExit>>
      [] tok.t = "P_raise" -> <<Def, NL>> \o Indent \o <<RaiseValueError>>
      [] tok.t = "P_exit" -> <<ImportSys, NL, Def, NL>> \o Indent \o <<SysExit>>
      [] tok.t = "P_none" -> <<Def, NL>> \o Indent \o <<ReturnNone>>
      [] tok.t = "P_table" -> <<ImportPd, NL, Def, NL>> \o Indent \o <<ReturnTable(tok.tbl)>>
      [] OTHER -> <<tok>>

\* the text as the compiler reads it: the texts of the tokens one after
\* the other with nothing between them
RECURSIVE Source(_)
Source(text) ==
    IF text = <<>> THEN <<>> ELSE TokenLines(Head(text)) \o Source(Tail(text))

\* where the line ends of s are
LineEnds(s) == {i \in 1..Len(s) : s[i] = NL}

\* the lines of s, the last one without a line end
RECURSIVE SplitLines(_)
SplitLines(s) ==
    IF LineEnds(s) = {} THEN <<s>>
    ELSE <<SubSeq(s, 1, Min(LineEnds(s)) - 1)>>
            \o SplitLines(SubSeq(s, Min(LineEnds(s)) + 1, Len(s)))

\* the blanks a line starts with
IndentOf(line) == Len(line) - Len(LStrip(line))

\* a line of blanks only, which the compiler skips
IsBlank(line) == Strip(line) = <<>>

\* python and py are names; names that touch are one name
IsName(tok) == tok.t \in {"python", "py"}
AllNames(s) == \A i \in 1..Len(s) : IsName(s[i])

\* the texts that are one statement, or the header of a def, by themselves
Statements ==
    {"M_raise", "M_no_parse", ImportSys.t, ImportPd.t, SysExit.t, Def.t,
     RaiseValueError.t, ReturnNone.t, "return pd.DataFrame"}

\* the statement the tokens c of a line make up, "invalid" when they make
\* up none: names, then x = 1, assign to a longer name; return None, then
\* names, returns a name; a blank between two tokens separates two
\* expressions
Statement(c) ==
    IF \E i \in 1..Len(c) : c[i] = SP THEN "invalid"
    ELSE IF AllNames(c) THEN "name"
    ELSE IF AllNames(SubSeq(c, 1, Len(c) - 1)) /\ c[Len(c)] = MNoParse THEN "assign"
    ELSE IF c[1] = ReturnNone /\ AllNames(Tail(c)) /\ Len(c) > 1 THEN "return name"
    ELSE IF Len(c) = 1 /\ c[1].t \in Statements THEN c[1].t
    ELSE "invalid"

\* the 1 of x = 1 runs into a letter: invalid decimal literal, an error of
\* the tokenizer
InvalidDecimalLiteral(line) ==
    \E k \in 1..(Len(line) - 1) :
        line[k] = MNoParse /\ ~IsSpace(line[k + 1]) /\ line[k + 1] # Fence

\* the indentation stack after a line of the indentation ind
Dent(stack, ind) ==
    IF ind > stack[Len(stack)] THEN Append(stack, ind)
    ELSE SubSeq(stack, 1, Cardinality({j \in 1..Len(stack) : stack[j] <= ind}))

\* the tokenizer stops at a line that comes back to an indentation which is
\* not on the stack
Inconsistent(stack, line) ==
    /\ ~IsBlank(line)
    /\ IndentOf(line) < stack[Len(stack)]
    /\ \A j \in 1..Len(stack) : stack[j] # IndentOf(line)

\* after an error of the parser's second pass the tokenizer reads the rest
\* of the text, from line n on, and an error it raises takes the place of
\* the parser's; inside the bracket that def (: opens, indentation does
\* not count
RECURSIVE TokenizerRaises(_, _, _, _)
TokenizerRaises(ls, n, stack, paren) ==
    IF n > Len(ls) THEN FALSE
    ELSE IF ~paren /\ Inconsistent(stack, ls[n]) THEN FALSE
    ELSE IF InvalidDecimalLiteral(ls[n]) THEN TRUE
    ELSE TokenizerRaises(ls, n + 1,
                         IF paren \/ IsBlank(ls[n]) THEN stack
                         ELSE Dent(stack, IndentOf(ls[n])),
                         paren \/ \E k \in 1..Len(ls[n]) : ls[n][k] = MSyntaxError)

\* the error the compiler reports from line n on, "" for none; inbody says
\* that the line before belongs to a def. A line is indented by nothing,
\* or inside a def by the indentation of the body; a def inside the
\* body of a def has its own body at its own indentation (expected an
\* indented block)
RECURSIVE CompileLines(_, _, _)
RECURSIVE CompileLine(_, _, _, _, _)
CompileLine(ls, n, inbody, ind, st) ==
    IF ind # 0 /\ ~(inbody /\ ind = Len(Indent)) THEN "IndentationError"
    ELSE IF st = "invalid" THEN "SyntaxError"
    ELSE IF st = Def.t /\ ind # 0
    THEN IF TokenizerRaises(ls, n + 1, <<0, Len(Indent)>>, FALSE)
         THEN "SyntaxError" ELSE "IndentationError"
    ELSE CompileLines(ls, n + 1, st = Def.t \/ ind # 0)

CompileLines(ls, n, inbody) ==
    IF n > Len(ls) THEN ""
    ELSE IF IsBlank(ls[n]) THEN CompileLines(ls, n + 1, inbody)
    ELSE CompileLine(ls, n, inbody, IndentOf(ls[n]), Statement(Strip(ls[n])))

\* compile(source): the first error of the whole text, "" when it compiles
CompileError(text) == CompileLines(SplitLines(Source(text)), 1, FALSE)

NoParse == Tok("no parse")

\* the globals of a module that has run nothing yet
NoGlobals == [sys |-> FALSE, pd |-> FALSE, parse |-> NoParse]

\* the module body ended: with status, or at its end with the globals g
Ended(status, err) ==
    [status |-> status, err |-> err, parse |-> NoParse, sys |-> FALSE, pd |-> FALSE]
Ran(g) == [status |-> "ok", err |-> "", parse |-> g.parse, sys |-> g.sys, pd |-> g.pd]

\* the function a def defines: the statement of the first line of its body
\* (every such statement leaves the function)
Function(body) == [t |-> Statement(body), tbl |-> body[1].tbl]

\* the module body runs top to bottom from line n on: the statements that
\* are not indented; the lines of a def run when parse is called
RECURSIVE ExecLines(_, _, _)
RECURSIVE ExecLine(_, _, _, _)
ExecLine(ls, n, g, st) ==
    IF st = "name" THEN Ended("exception", "NameError")
    ELSE IF st = "M_raise" THEN Ended("exception", "RuntimeError")
    ELSE IF st = SysExit.t
    THEN IF g.sys THEN Ended("exit", "SystemExit") ELSE Ended("exception", "NameError")
    ELSE ExecLines(ls, n + 1,
                   IF st = ImportSys.t THEN [g EXCEPT !.sys = TRUE]
                   ELSE IF st = ImportPd.t THEN [g EXCEPT !.pd = TRUE]
                   ELSE IF st = Def.t THEN [g EXCEPT !.parse = Function(Strip(ls[n + 1]))]
                   ELSE g)

ExecLines(ls, n, g) ==
    IF n > Len(ls) THEN Ran(g)
    ELSE IF IsBlank(ls[n]) \/ IndentOf(ls[n]) # 0 THEN ExecLines(ls, n + 1, g)
    ELSE ExecLine(ls, n, g, Statement(Strip(ls[n])))

\* exec of the code of a text that compiles
ExecBody(code) == ExecLines(SplitLines(Source(code)), 1, NoGlobals)

\* the bytecode file of a source file: <dir>/__pycache__/<name>.<tag>.pyc
PycPath(path) ==
    [dir |-> path.dir \o "/__pycache__",
     file |-> <<path.file[1], "_parser", ".cpython-311.pyc">>]

\* a bytecode file: the code of the text it was compiled from, and the
\* whole-second mtime and the size of that source file
Pyc(source) ==
    [text |-> source.text, source_mtime |-> source.mtime,
     source_size |-> Bytes(source.text)]

\* the bytecode file of path is there and was made from a source of the
\* mtime and size the source file has now
PycIsFresh(files, path) ==
    /\ PycPath(path) \in DOMAIN files
    /\ files[PycPath(path)].source_mtime = files[path].mtime
    /\ files[PycPath(path)].source_size = Bytes(files[path].text)

\* the loader's get_code inside exec_module: the bytecode file when it is
\* fresh; otherwise the source is compiled and, unless the interpreter runs
\* with dont_write_bytecode, the bytecode file is written
get_code(files, path, dont_write) ==
    LET fresh == [q \in DOMAIN files \cup {PycPath(path)} |->
                     IF q = PycPath(path) THEN Pyc(files[path]) ELSE files[q]]
        err == CompileError(files[path].text)
    IN  IF PycIsFresh(files, path)
        THEN [err |-> "", code |-> files[PycPath(path)].text, files |-> files]
        ELSE IF err # ""
        THEN [err |-> err, code |-> <<>>, files |-> files]
        ELSE [err |-> "", code |-> files[path].text,
              files |-> IF dont_write THEN files ELSE fresh]

\* what import_parser hands back or raises, the code that was run and the
\* files the call leaves
Module(m, ran, files) ==
    [status |-> m.status, err |-> m.err, parse |-> m.parse, sys |-> m.sys, pd |-> m.pd,
     ran |-> ran, files |-> files]

\* the import raises err before any code of the module runs
ImportRaises(err, files) ==
    Module(Ended("exception", err), <<>>, files)

\* spec.loader.exec_module(mod) with c what get_code gave
exec_module(files, c) ==
    IF c.err # "" THEN ImportRaises(c.err, files)
    ELSE Module(ExecBody(c.code), c.code, c.files)

\* import_parser(parser_path): spec_from_file_location, exec_module
import_parser(files, parser_path, dont_write) ==
    IF parser_path \notin DOMAIN files
    THEN ImportRaises("FileNotFoundError", files)
    ELSE exec_module(files, get_code(files, parser_path, dont_write))

\* what a call of parse does
ParseRaises(err) == [status |-> "exception", err |-> err, isTable |-> FALSE, df |-> NoTable]
ParseExits == [status |-> "exit", err |-> "SystemExit", isTable |-> FALSE, df |-> NoTable]
ParseReturns(isTable, df) == [status |-> "ok", err |-> "", isTable |-> isTable, df |-> df]

\* mod.parse(pdf): sys and pd are looked up in the globals of the module
\* when the call runs
CallParse(mod) ==
    IF mod.parse = NoParse THEN ParseRaises("AttributeError")
    ELSE IF mod.parse.t = RaiseValueError.t THEN ParseRaises("ValueError")
    ELSE IF mod.parse.t = SysExit.t
    THEN IF mod.sys THEN ParseExits ELSE ParseRaises("NameError")
    ELSE IF mod.parse.t = ReturnNone.t THEN ParseReturns(FALSE, NoTable)
    ELSE IF mod.parse.t = "return name" THEN ParseRaises("NameError")
    ELSE IF mod.pd THEN ParseReturns(TRUE, mod.parse.tbl)
    ELSE ParseRaises("NameError")

\* ------------------------------------------------------------ the fixture
\* a csv file: "ok" parses, "bad_rows" has a good header and a malformed
\* row, "unreadable" has no header to parse
CsvFile(status, df) == [status |-> status, df |-> df]

\* pd.read_csv(csv): raises unless the whole file parses
ReadCsvRaises(csv) == csv.status # "ok"

\* pd.read_csv(csv_path, nrows=0): only the header is parsed
ReadHeaderRaises(csv) == csv.status = "unreadable"

\* what read_csv raises: no columns to parse, or a row that does not fit
ReadCsvError(csv) == IF csv.status = "unreadable" THEN "EmptyDataError" ELSE "ParserError"

\* ------------------------------------------------------------ diagnostics
NoShape == <<0, 0>>
EmptyMsg == [kind |-> "", err |-> "", trace |-> FALSE, expected |-> NoShape, got |-> NoShape]
EqualsMsg == [EmptyMsg EXCEPT !.kind = "DataFrame.equals -> True"]
\* the mutant: the two shapes change places
MismatchMsgSwapped(exp, got) ==
    [EmptyMsg EXCEPT !.kind = "Mismatch in DataFrames", !.expected = got, !.got = exp]

\* line 59: expected {df_true.shape}, got {df_pred.shape}
MismatchMsg(exp, got) ==
    [EmptyMsg EXCEPT !.kind = "Mismatch in DataFrames", !.expected = exp, !.got = got]
ExceptionMsg(err) ==
    [EmptyMsg EXCEPT !.kind = "Exception while running parse()", !.err = err, !.trace = TRUE]

Returned(ok, msg) == [propagates |-> FALSE, exc |-> "", ok |-> ok, msg |-> msg]
Propagated(exc) == [propagates |-> TRUE, exc |-> exc, ok |-> FALSE, msg |-> EmptyMsg]

\* except Exception: an Exception becomes a diagnostic
Caught(err) == Returned(FALSE, ExceptionMsg(err))

\* lines 53-62, the try block with mod what import_parser gave and pred
\* what mod.parse(pdf) gave: SystemExit is no Exception, so the except
\* clause lets it through
TryBlock(mod, pred, csv) ==
    IF mod.status = "exit" THEN Propagated(mod.err)
    ELSE IF mod.status = "exception" THEN Caught(mod.err)
    ELSE IF pred.status = "exit" THEN Propagated(pred.err)
    ELSE IF pred.status = "exception" THEN Caught(pred.err)
    ELSE IF ReadCsvRaises(csv) THEN Caught(ReadCsvError(csv))
    ELSE IF ~pred.isTable THEN Caught("AttributeError")
    ELSE IF DataFrameEquals(pred.df, csv.df) THEN Returned(TRUE, EqualsMsg)
    ELSE Returned(FALSE, MismatchMsg(Shape(csv.df), Shape(pred.df)))

\* the result r of the try block, and the files the import left
Leaving(r, files) ==
    [propagates |-> r.propagates, exc |-> r.exc, ok |-> r.ok, msg |-> r.msg,
     files |-> files]

\* test_parser with mod what import_parser gave
TestModule(mod, csv) == Leaving(TryBlock(mod, CallParse(mod), csv), mod.files)

\* test_parser(parser_path, pdf, csv); files is what import_parser leaves
test_parser(files, parser_path, csv, dont_write) ==
    TestModule(import_parser(files, parser_path, dont_write), csv)

\* ------------------------------------------------------------ data folders
\* the files of a data folder
PdfA == [name |-> "a", ext |-> ".pdf"]
PdfB == [name |-> "b", ext |-> ".pdf"]
PdfUpper == [name |-> "c", ext |-> ".PDF"]
CsvA == [name |-> "result", ext |-> ".csv"]
NoFile == [name |-> "", ext |-> ""]

\* glob.glob(os.path.join(folder, "*" + ext)): the entries that match, in
\* the order the directory lists them
RECURSIVE Glob(_, _)
Glob(listing, ext) ==
    IF listing = <<>> THEN <<>>
    ELSE IF Head(listing).ext = ext THEN <<Head(listing)>> \o Glob(Tail(listing), ext)
    ELSE Glob(Tail(listing), ext)

\* str.lower() of an extension
LowerExt(ext) == IF ext = ".PDF" THEN ".pdf" ELSE ext

\* [f for f in os.listdir(DATA_DIR) if f.lower().endswith(ext)]
RECURSIVE ListDirLower(_, _)
ListDirLower(listing, ext) ==
    IF listing = <<>> THEN <<>>
    ELSE IF LowerExt(Head(listing).ext) = ext
    THEN <<Head(listing)>> \o ListDirLower(Tail(listing), ext)
    ELSE ListDirLower(Tail(listing), ext)

\* the mutant: only the pdf is required
find_data_paths_pdf_only(folder) ==
    LET pdfs == Glob(folder, ".pdf")
        csvs == Glob(folder, ".csv")
    IN  IF pdfs = <<>>
        THEN [raises |-> TRUE, pdf |-> NoFile, csv |-> NoFile]
        ELSE [raises |-> FALSE, pdf |-> pdfs[1],
              csv |-> IF csvs = <<>> THEN NoFile ELSE csvs[1]]

\* find_data_paths(target)
find_data_paths(folder) ==
    LET pdfs == Glob(folder, ".pdf")
        csvs == Glob(folder, ".csv")
    IN  IF pdfs = <<>> \/ csvs = <<>>
        THEN [raises |-> TRUE, pdf |-> NoFile, csv |-> NoFile]
        ELSE [raises |-> FALSE, pdf |-> pdfs[1], csv |-> csvs[1]]

\* args.target.lower().strip()
NormalizeTarget(arg) ==
    IF arg \in {"icici", "ICICI ", " Icici"} THEN "icici"
    ELSE IF arg \in {"sbi", "SBI"} THEN "sbi"
    ELSE arg

\* target.upper()
UpperTarget(target) ==
    IF target = "icici" THEN "ICICI" ELSE IF target = "sbi" THEN "SBI" ELSE target

\* ---------------------------------------------------------------- prompts
\* the sentinel of "Last error summary" when last_error is empty
NoneMsg == [EmptyMsg EXCEPT !.kind = "None"]

\* the mutant: the feedback is never passed on
LastErrorFieldDropped(last_error) == NoneMsg

\* last_error if last_error else "None"
LastErrorField(last_error) == IF last_error = EmptyMsg THEN NoneMsg ELSE last_error

\* the mutant: the column list is given on the first attempt only
PromptColumnsOnce(target, columns, pdf_name, attempt, last_error) ==
    [bank |-> UpperTarget(target), columns |-> IF attempt = 1 THEN columns ELSE <<>>,
     pdf |-> pdf_name, attempt |-> attempt, last_error |-> LastErrorField(last_error)]

\* the fields ask_llm_for_parser formats into the prompt
Prompt(target, columns, pdf_name, attempt, last_error) ==
    [bank |-> UpperTarget(target), columns |-> columns, pdf |-> pdf_name,
     attempt |-> attempt, last_error |-> LastErrorField(last_error)]

\* os.path.basename(pdf_path)
Basename(f) == <<f.name, f.ext>>

\* ------------------------------------------------------ the regression test
\* the asserts of the regression test in their order, with mod what its
\* import_parser gave and df_out what mod.parse(pdf) gave
AllAssertsPass(files, mod, df_out, data_dir, csv) ==
    /\ PARSER_PATH \in DOMAIN files
    /\ mod.status = "ok"
    /\ mod.parse # NoParse
    /\ ListDirLower(data_dir, ".pdf") # <<>>
    /\ ListDirLower(data_dir, ".csv") # <<>>
    /\ df_out.status = "ok"
    /\ ~ReadCsvRaises(csv)
    /\ df_out.isTable
    /\ DataFrameEquals(df_out.df, csv.df)

\* the regression test with mod what its import_parser gave
IciciAsserts(files, mod, data_dir, csv) ==
    [passed |-> AllAssertsPass(files, mod, CallParse(mod), data_dir, csv),
     files |-> mod.files]

\* test_icici_parse_equals_csv(): passed when every assert of it passes;
\* files is what its import_parser leaves (the import comes after the
\* first assert)
test_icici_parse_equals_csv(files, data_dir, csv, dont_write) ==
    IciciAsserts(files, import_parser(files, PARSER_PATH, dont_write), data_dir, csv)

\* the exit code of "python -m pytest -q": 0 when the tests pass, 1 when
\* one fails, 5 when none is collected
PytestExitCode(mode, passed) ==
    IF mode = "no_tests" THEN 5 ELSE IF passed THEN 0 ELSE 1

\* what the subprocess leaves when t is what the regression test gave
PytestResult(mode, files, t) ==
    [rc |-> IF mode = "no_interpreter" THEN 1 ELSE PytestExitCode(mode, t.passed),
     files |-> IF mode = "collected" THEN t.files ELSE files]

\* run_pytest(): the return code of the subprocess, 1 when the interpreter
\* is not found, and the files the test run leaves in the parser packages
run_pytest(mode, files, data_dir, csv, dont_write) ==
    PytestResult(mode, files,
                 test_icici_parse_equals_csv(files, data_dir, csv, dont_write))

PytestModes == {"collected", "no_tests", "no_interpreter"}

\* ------------------------------------------------------------- the inputs
Df(cols, idx, dts, rows) == [columns |-> cols, index |-> idx, dtypes |-> dts, rows |-> rows]

\* the expected table of the runs of main
E0 == Df(<<"Date", "Debit">>, RangeIndex(1), <<"int64", "int64">>, << <<1, 2>> >>)

\* tables a generated parse may return in a run of main
RunTables ==
    { E0,
      Df(<<"Date", "Debit">>, RangeIndex(1), <<"int64", "int64">>, << <<1, 1>> >>),
      Df(<<"Debit", "Date">>, RangeIndex(1), <<"int64", "int64">>, << <<2, 1>> >>),
      Df(<<"Date", "Debit">>, RangeIndex(1), <<"int64", "float64">>, << <<1, 2>> >>),
      Df(<<"Date", "Debit">>, <<1>>, <<"int64", "int64">>, << <<1, 2>> >>),
      Df(<<"Date", "Debit">>, RangeIndex(0), <<"int64", "int64">>, <<>>),
      Df(<<"Date", "Debit">>, RangeIndex(2), <<"int64", "int64">>, << <<1, 2>>, <<1, 2>> >>) }

Programs ==
    {MSyntaxError, MRaise, MExit, MNoParse, PRaise, PExit, PNone}
        \cup {PTable(df) : df \in RunTables}

\* the shapes of a completion around a program p
Plain(p) == <<p>>
Padded(p) == <<NL, p, SP, NL>>
FencedPython(p) == <<Prose, NL, Fence, TagPython, NL, p, NL, Fence, NL, Prose>>
FencedBare(p) == <<Fence, NL, p, NL, Fence>>
FencedOther(p) == <<Fence, TagOther, NL, p, NL, Fence>>

\* completion.choices[0].message.content of the runs of main
Completions ==
    {Plain(p) : p \in Programs}
        \cup {Padded(PTable(E0)), FencedPython(PTable(E0)), FencedBare(PTable(E0)),
              FencedOther(PTable(E0)), FencedPython(PRaise)}

Args == {"ICICI ", "sbi"}

\* the listings of data/<target>
Listings ==
    { <<>>, <<PdfA>>, <<CsvA>>, <<PdfUpper, CsvA>>, <<PdfA, CsvA>>, <<PdfB, PdfA, CsvA>> }

CsvFiles == {CsvFile("ok", E0), CsvFile("bad_rows", E0), CsvFile("unreadable", NoTable)}

\* the parser packages before the run: nothing, or a parser left under
\* custom_parsers/ by hand, in a second before the run starts
NoFiles == [q \in {} |-> File(<<>>, 0)]
InitialFiles == {NoFiles, WriteFile(NoFiles, PARSER_PATH, <<MNoParse, NL>>, 0)}

\* ---------------------------------------------------------------- state
VARIABLES
    api_key,        \* os.getenv("grok_api_key") is set
    argv,           \* the --target argument
    folder,         \* the listing of data/<target>
    csv_file,       \* the content of the csv of the folder
    dont_write_bytecode, \* sys.dont_write_bytecode of the process that runs main
    fs,             \* the files of the parser packages: path -> file
    clock,          \* the whole second of the last write of the run, 0 for none
    pc,             \* where the process is
    target, pdf_path, csv_path, expected_cols,
    success, error_summary, attempt, code, parser_path,
    requests,       \* the prompts sent to the completion service, in order
    log,            \* agent.log
    out,            \* standard output
    uncaught,       \* the exception that ended the process, "" for none
    exit_code,      \* the exit status of the process once pc = "halt"
    pytest_calls,   \* how many times run_pytest ran
    pytest_rc,      \* what run_pytest returned last
    tests,          \* how many times test_parser ran
    eq              \* the exact-match check: its inputs and its result

vars == <<api_key, argv, folder, csv_file, dont_write_bytecode, fs, clock, pc, target, pdf_path, csv_path,
          expected_cols, success, error_summary, attempt, code, parser_path,
          requests, log, out, uncaught, exit_code, pytest_calls, pytest_rc,
          tests, eq>>

env == <<api_key, argv, folder, csv_file, dont_write_bytecode>>

Line(text) == [line |-> text, msg |-> EmptyMsg]
MsgLine(msg) == [line |-> "", msg |-> msg]

\* the exact-match check: the program of the file and the expected table,
\* how many times test_parser ran, what it returned the first time (ok,
\* msg, raised when it did not return), the table parse produced then,
\* what it returned the second time; and for each call whether the loader
\* ran a bytecode file instead of the source (bytecode, bytecode2), and
\* whether the first call left the files other than it found them (left)
NoEq ==
    [cand |-> Tok(""), E |-> NoTable, calls |-> 0,
     ok |-> FALSE, msg |-> EmptyMsg, raised |-> FALSE,
     isTable |-> FALSE, P |-> NoTable,
     ok2 |-> FALSE, msg2 |-> EmptyMsg, raised2 |-> FALSE,
     bytecode |-> FALSE, left |-> FALSE, bytecode2 |-> FALSE]

Locals0 ==
    /\ target = ""
    /\ pdf_path = NoFile
    /\ csv_path = NoFile
    /\ expected_cols = <<>>
    /\ success = FALSE
    /\ error_summary = EmptyMsg
    /\ attempt = 0
    /\ code = <<>>
    /\ parser_path = ParserPath("")
    /\ requests = <<>>
    /\ log = <<>>
    /\ out = <<>>
    /\ uncaught = ""
    /\ exit_code = 0
    /\ pytest_calls = 0
    /\ pytest_rc = 0
    /\ tests = 0

Init ==
    /\ api_key \in BOOLEAN
    /\ argv \in Args
    /\ folder \in Listings
    /\ csv_file \in CsvFiles
    /\ dont_write_bytecode \in BOOLEAN
    /\ fs \in InitialFiles
    /\ clock = 0
    /\ pc = "config"
    /\ Locals0
    /\ eq = NoEq

\* --------------------------------------------------------------- actions
\* the process ends: an uncaught exception (traceback, status 1), a
\* sys.exit(status), or the return of main (status 0)
Halt(exc, status) ==
    /\ pc' = "halt"
    /\ uncaught' = exc
    /\ exit_code' = status

\* the mutant: the check of the key is skipped
MissingKeyNeverFatal(key) == FALSE

\* line 17: if not API_KEY
MissingKey(key) == ~key

\* lines 15-20: the module-level configuration
LoadConfig ==
    /\ pc = "config"
    /\ IF MissingKey(api_key)
       THEN /\ out' = Append(out, Line("GROQ_API_KEY missing"))
            /\ Halt("SystemExit", 1)
       ELSE /\ pc' = "args"
            /\ UNCHANGED <<out, uncaught, exit_code>>
    /\ UNCHANGED <<env, fs, clock, target, pdf_path, csv_path, expected_cols, success,
                   error_summary, attempt, code, parser_path, requests, log,
                   pytest_calls, pytest_rc, tests, eq>>

\* lines 127-130
ParseArgs ==
    /\ pc = "args"
    /\ target' = NormalizeTarget(argv)
    /\ pc' = "locate"
    /\ UNCHANGED <<env, fs, clock, pdf_path, csv_path, expected_cols, success,
                   error_summary, attempt, code, parser_path, requests, log, out,
                   uncaught, exit_code, pytest_calls, pytest_rc, tests, eq>>

\* line 132
FindDataPaths ==
    /\ pc = "locate"
    /\ LET r == find_data_paths(folder) IN
       IF r.raises
       THEN /\ Halt("FileNotFoundError", 1)
            /\ UNCHANGED <<pdf_path, csv_path>>
       ELSE /\ pdf_path' = r.pdf
            /\ csv_path' = r.csv
            /\ pc' = "schema"
            /\ UNCHANGED <<uncaught, exit_code>>
    /\ UNCHANGED <<env, fs, clock, target, expected_cols, success, error_summary,
                   attempt, code, parser_path, requests, log, out,
                   pytest_calls, pytest_rc, tests, eq>>

\* lines 133-141: the header of the csv, the two banner lines, the loop entry
ReadSchema ==
    /\ pc = "schema"
    /\ IF ReadHeaderRaises(csv_file)
       THEN /\ Halt("EmptyDataError", 1)
            /\ UNCHANGED <<expected_cols, out, success, error_summary, attempt>>
       ELSE /\ expected_cols' = csv_file.df.columns
            /\ out' = out \o <<Line("Starting LLM agent"), Line("Expected columns")>>
            /\ success' = FALSE
            /\ error_summary' = EmptyMsg
            /\ attempt' = 1
            /\ pc' = "ask"
            /\ UNCHANGED <<uncaught, exit_code>>
    /\ UNCHANGED <<env, fs, clock, target, pdf_path, csv_path, code, parser_path,
                   requests, log, pytest_calls, pytest_rc, tests, eq>>

\* lines 142-143, ask_llm_for_parser returning: the completion, stripped
AskLLM ==
    /\ pc = "ask"
    /\ out' = Append(out, Line("Attempt"))
    /\ log' = Append(log, "Sending prompt to Groq model...")
    /\ requests' = Append(requests,
          Prompt(target, expected_cols, Basename(pdf_path), attempt, error_summary))
    /\ \E content \in Completions : code' = Strip(content)
    /\ pc' = "save"
    /\ UNCHANGED <<env, fs, clock, target, pdf_path, csv_path, expected_cols, success,
                   error_summary, attempt, parser_path, uncaught, exit_code,
                   pytest_calls, pytest_rc, tests, eq>>

\* lines 142-143, client.chat.completions.create raising: nothing in main
\* catches it
AskLLMRaises ==
    /\ pc = "ask"
    /\ out' = Append(out, Line("Attempt"))
    /\ log' = Append(log, "Sending prompt to Groq model...")
    /\ requests' = Append(requests,
          Prompt(target, expected_cols, Basename(pdf_path), attempt, error_summary))
    /\ Halt("APIError", 1)
    /\ UNCHANGED <<env, fs, clock, target, pdf_path, csv_path, expected_cols, success,
                   error_summary, attempt, code, parser_path,
                   pytest_calls, pytest_rc, tests, eq>>

\* the second a write of the run can fall in: the second of the write
\* before it or the next one; the first write comes after second 0
Seconds(last) == IF last = 0 THEN {1} ELSE {last, last + 1}

\* the second the write of the parser file falls in when ensure_custom_parser
\* ran at the second before: the same second, and the next one as well when
\* ensure_custom_parser wrote __init__.py
SecondsAfter(files, before) ==
    IF InitPath \in DOMAIN files THEN {before} ELSE {before, before + 1}

\* line 144: save_parser(target, code): ensure_custom_parser() at line 113,
\* the write of the parser file at lines 119-120
SaveParser ==
    /\ pc = "save"
    /\ \E before \in Seconds(clock) : \E now \in SecondsAfter(fs, before) :
          /\ clock' = now
          /\ fs' = WriteFile(ensure_custom_parser(fs, before), ParserPath(target),
                              FileText(code), now)
    /\ log' = Append(log, "Saved cleaned parser")
    /\ parser_path' = ParserPath(target)
    /\ pc' = "test"
    /\ UNCHANGED <<env, target, pdf_path, csv_path, expected_cols, success,
                   error_summary, attempt, code, requests, out, uncaught,
                   exit_code, pytest_calls, pytest_rc, tests, eq>>

\* the mutant: success does not leave the loop
AfterTestNoBreak(ok, n) == IF n < MaxAttempts THEN "ask" ELSE "report"

\* the mutant: the loop runs once more
AfterTestOffByOne(ok, n) ==
    IF ok THEN "report" ELSE IF n <= MaxAttempts THEN "ask" ELSE "report"

\* lines 141, 147-152: where attempt n goes once test_parser returned ok:
\* break on success, the next value of range(1, 4) otherwise, out of the
\* loop when the range is used up
AfterTest(ok, n) ==
    IF ok THEN "report" ELSE IF n < MaxAttempts THEN "ask" ELSE "report"

\* lines 145-152: test_parser and the branch on its result
TestParser ==
    /\ pc = "test"
    /\ tests' = tests + 1
    /\ \E r \in {test_parser(fs, parser_path, csv_file, dont_write_bytecode)} :
       /\ fs' = r.files
       /\ IF r.propagates
          THEN /\ Halt(r.exc, 1)
               /\ UNCHANGED <<out, success, error_summary, attempt>>
          ELSE /\ out' = IF r.ok THEN Append(out, MsgLine(r.msg))
                         ELSE out \o <<MsgLine(r.msg), Line("Retry")>>
               /\ success' = IF r.ok THEN TRUE ELSE success
               /\ error_summary' = IF r.ok THEN error_summary ELSE r.msg
               /\ pc' = AfterTest(r.ok, attempt)
               /\ attempt' = IF AfterTest(r.ok, attempt) = "ask" THEN attempt + 1
                             ELSE attempt
               /\ UNCHANGED <<uncaught, exit_code>>
    /\ UNCHANGED <<env, clock, target, pdf_path, csv_path, expected_cols, code,
                   parser_path, requests, log, pytest_calls, pytest_rc, eq>>

\* lines 154-159, without the call of run_pytest
Report ==
    /\ pc = "report"
    /\ IF success
       THEN /\ out' = out \o <<Line("Success! Parser generated"), Line("Running pytest")>>
            /\ pc' = "pytest"
            /\ UNCHANGED <<uncaught, exit_code>>
       ELSE /\ out' = Append(out, Line("Failed after 3 attempts"))
            /\ Halt("", 0)
    /\ UNCHANGED <<env, fs, clock, target, pdf_path, csv_path, expected_cols, success,
                   error_summary, attempt, code, parser_path, requests, log,
                   pytest_calls, pytest_rc, tests, eq>>

\* the folder the regression test reads: data/icici
IciciDir == IF target = "icici" THEN folder ELSE <<>>

\* the mutant: subprocess.run(..., check=True) raises on a non-zero code
AfterPytestChecked(rc) ==
    IF rc # 0 THEN [exc |-> "CalledProcessError", status |-> 1]
    ELSE [exc |-> "", status |-> 0]

\* lines 66, 157: check=False and the dropped return value: whatever the
\* code, main returns normally
AfterPytest(rc) == [exc |-> "", status |-> 0]

\* line 157: run_pytest(); then main returns. The child is started
\* without the options of the parent, so it writes bytecode unless
\* PYTHONDONTWRITEBYTECODE is set in the environment it inherits (which
\* load_dotenv may have set after the parent had started)
RunPytest ==
    /\ pc = "pytest"
    /\ pytest_calls' = pytest_calls + 1
    /\ \E mode \in PytestModes, PYTHONDONTWRITEBYTECODE \in BOOLEAN :
       \E r \in {run_pytest(mode, fs, IciciDir, csv_file, PYTHONDONTWRITEBYTECODE)} :
          /\ pytest_rc' = r.rc
          /\ fs' = r.files
          /\ Halt(AfterPytest(r.rc).exc, AfterPytest(r.rc).status)
    /\ UNCHANGED <<env, clock, target, pdf_path, csv_path, expected_cols, success,
                   error_summary, attempt, code, parser_path, requests, log, out,
                   tests, eq>>

Next ==
    \/ LoadConfig
    \/ ParseArgs
    \/ FindDataPaths
    \/ ReadSchema
    \/ AskLLM
    \/ AskLLMRaises
    \/ SaveParser
    \/ TestParser
    \/ Report
    \/ RunPytest

Spec == Init /\ [][Next]_vars

\* ------------------------------------------- the exact-match check alone
\* the universe of tables: up to two columns in either order, up to
\* MaxRows rows, the default row index or one that starts at 1, int64 and
\* float64 columns, NaN in float64 columns only
ColumnSeqs == {<<"Date">>, <<"Date", "Debit">>, <<"Debit", "Date">>}
Dtypes == {"int64", "float64"}
CellsOf(dtype) == IF dtype = "int64" THEN {1, 2} ELSE {0, 1, 2}
Indexes(n) == {RangeIndex(n), [i \in 1..n |-> i]}

TablesOf(cols, n) ==
    { t \in { Df(cols, idx, dts, rows) :
                 idx \in Indexes(n),
                 dts \in [1..Len(cols) -> Dtypes],
                 rows \in [1..n -> [1..Len(cols) -> 0..2]] } :
        \A i \in 1..n : \A j \in 1..Len(cols) : t.rows[i][j] \in CellsOf(t.dtypes[j]) }

Tables == UNION {TablesOf(cols, n) : cols \in ColumnSeqs, n \in 0..MaxRows}

\* what pd.read_csv returns has the default row index
CsvTables == {t \in Tables : t.index = RangeIndex(Len(t.rows))}

\* a parser file saved by save_parser whose parse returns P, and a csv that
\* holds E
InitEq ==
    /\ api_key = TRUE
    /\ argv = "icici"
    /\ folder = <<PdfA, CsvA>>
    /\ pc = "eq"
    /\ Locals0
    /\ dont_write_bytecode = FALSE
    /\ clock = 1
    /\ \E P \in Tables, E \in CsvTables :
          /\ eq = [NoEq EXCEPT !.cand = PTable(P), !.E = E]
          /\ csv_file = CsvFile("ok", E)
          /\ fs = WriteFile(ensure_custom_parser(NoFiles, clock), ParserPath("icici"),
                            FileText(Plain(PTable(P))), clock)

\* test_parser(parser_path, pdf, csv) on the file and the csv of the state
CallTestParser ==
    \E mod \in {import_parser(fs, ParserPath("icici"), dont_write_bytecode)} :
    \E r \in {TestModule(mod, csv_file)}, pred \in {CallParse(mod)} :
        /\ eq' = IF eq.calls = 0
                 THEN [eq EXCEPT !.calls = 1, !.ok = r.ok, !.msg = r.msg,
                                 !.raised = r.propagates,
                                 !.isTable = pred.isTable, !.P = pred.df,
                                 !.bytecode = PycIsFresh(fs, ParserPath("icici")),
                                 !.left = r.files # fs]
                 ELSE [eq EXCEPT !.calls = 2, !.ok2 = r.ok, !.msg2 = r.msg,
                                 !.raised2 = r.propagates,
                                 !.bytecode2 = PycIsFresh(fs, ParserPath("icici"))]
        /\ fs' = r.files
        /\ UNCHANGED <<env, clock, pc, target, pdf_path, csv_path, expected_cols,
                       success, error_summary, attempt, code, parser_path, requests,
                       log, out, uncaught, exit_code, pytest_calls, pytest_rc, tests>>

\* the first call
VerifyOnce ==
    /\ pc \in {"eq", "twice"}
    /\ eq.calls = 0
    /\ CallTestParser

NextEq == VerifyOnce

SpecEq == InitEq /\ [][NextEq]_vars

\* ------------------------------------------------ test_parser twice in a row
\* the candidate of the attempt before, when there was one: a table with a
\* wrong cell, or the expected table
EarlierPrograms ==
    { PTable(Df(<<"Date", "Debit">>, RangeIndex(1), <<"int64", "int64">>, << <<1, 1>> >>)),
      PTable(E0) }

\* what came before the save of the candidate: nothing, or the save and the
\* test of an earlier candidate, within the same second or in the second
\* before
Histories == {"none", "same_second", "second_before"}

\* the parser package after save_parser(earlier) and test_parser at the
\* second 1
AfterEarlier(earlier, csv, dont_write) ==
    test_parser(WriteFile(ensure_custom_parser(NoFiles, 1), ParserPath("icici"),
                          FileText(Plain(earlier)), 1),
                ParserPath("icici"), csv, dont_write).files

\* a parser file saved by save_parser that holds a program of Programs, any
\* csv, and any history
InitTwice ==
    /\ api_key = TRUE
    /\ argv = "icici"
    /\ folder = <<PdfA, CsvA>>
    /\ pc = "twice"
    /\ Locals0
    /\ dont_write_bytecode \in BOOLEAN
    /\ csv_file \in CsvFiles
    /\ \E cand \in Programs, earlier \in EarlierPrograms, history \in Histories :
          /\ eq = [NoEq EXCEPT !.cand = cand, !.E = csv_file.df]
          /\ clock = IF history = "second_before" THEN 2 ELSE 1
          /\ fs = WriteFile(IF history = "none"
                            THEN ensure_custom_parser(NoFiles, clock)
                            ELSE AfterEarlier(earlier, csv_file, dont_write_bytecode),
                            ParserPath("icici"), FileText(Plain(cand)), clock)

\* the second call, right after the first, on the same path and csv
VerifyAgain ==
    /\ pc = "twice"
    /\ eq.calls = 1
    /\ CallTestParser

NextTwice == VerifyOnce \/ VerifyAgain

SpecTwice == InitTwice /\ [][NextTwice]_vars

\* ------------------------------------------------------------ properties
IsMsgLine(l) == l.line = ""
IsSavedEntry(e) == e = "Saved cleaned parser"

\* the diagnostics test_parser returned so far, as main printed them
Diags == SelectSeq(out, IsMsgLine)

\* how many times save_parser wrote the candidate module
NumSaved == Len(SelectSeq(log, IsSavedEntry))

\* the run said "Success!"
OutcomeSuccess == \E i \in 1..Len(out) : out[i] = Line("Success! Parser generated")

\* the run ended after the last attempt failed
Exhausted ==
    /\ pc = "halt"
    /\ ~success
    /\ uncaught = ""
    /\ exit_code = 0
    /\ out # <<>>
    /\ out[Len(out)] = Line("Failed after 3 attempts")

\* test_parser returned failure for attempt MaxAttempts
LastAttemptFailed ==
    /\ tests = MaxAttempts
    /\ Len(Diags) = MaxAttempts
    /\ Diags[MaxAttempts].msg # EqualsMsg

\* the candidate module files on disk: what save_parser's directory holds
\* besides the package marker
CandidateFiles == {q \in DOMAIN fs : q.dir = "custom_parser" /\ q # InitPath}

\* the candidate module files and what they hold
CandidateFs == [q \in CandidateFiles |-> fs[q]]

C1_Bounded ==
    /\ Len(requests) <= MaxAttempts
    /\ NumSaved <= MaxAttempts
    /\ tests <= MaxAttempts
    /\ LastAttemptFailed =>
          /\ pc \in {"report", "halt"}
          /\ Len(requests) = MaxAttempts
          /\ pc = "halt" => Exhausted

C1_NoFourth ==
    LastAttemptFailed =>
        /\ requests' = requests
        /\ CandidateFs' = CandidateFs
        /\ tests' = tests
        /\ Exhausted'

\* C1: in every run at most 3 generation requests, 3 saves and 3
\* verifications happen; once the verification of attempt 3 has failed the
\* next step ends the run in Exhausted, and no 4th generation request, save
\* or verification follows.
C1_RetryBound == [](C1_Bounded) /\ [][C1_NoFourth]_vars

C1_Witness == Exhausted /\ LastAttemptFailed /\ Len(requests) = MaxAttempts

\* C2: an error raised by the completion service during an attempt does not
\* abort the run: the process never ends on the exception of the service.
C2_GenerationErrorIsAttemptLocal == ~(pc = "halt" /\ uncaught = "APIError")

\* C3: request n carries attempt number n; request 1 carries the "None"
\* sentinel, and request n >= 2 carries exactly the diagnostic that the
\* verification of attempt n-1 returned.
C3_FeedbackCarryForward ==
    \A n \in 1..Len(requests) :
        /\ requests[n].attempt = n
        /\ n = 1 => requests[n].last_error = NoneMsg
        /\ n > 1 => /\ Len(Diags) >= n - 1
                    /\ requests[n].last_error = Diags[n - 1].msg

C3_Witness ==
    /\ Len(requests) = MaxAttempts
    /\ requests[2].last_error.kind = "Exception while running parse()"
    /\ requests[3].last_error.kind = "Mismatch in DataFrames"

C4_Terminal ==
    /\ success => pc \in {"report", "pytest", "halt"}
    /\ success <=> \E i \in 1..Len(Diags) : Diags[i].msg = EqualsMsg
    /\ OutcomeSuccess => success
    /\ pc = "halt" /\ success => OutcomeSuccess

C4_NoMoreWork ==
    success => /\ success'
               /\ requests' = requests
               /\ CandidateFs' = CandidateFs
               /\ tests' = tests

\* C4: once a verification has returned success the run is in Success: no
\* further generation request, write of the candidate module or
\* verification happens; and the run says Success exactly when some
\* verification returned success.
C4_SuccessIsTerminal == [](C4_Terminal) /\ [][C4_NoMoreWork]_vars

C4_Witness == pc = "halt" /\ success /\ Len(requests) = 2 /\ tests = 2

\* C5: test_parser never raises outward: whatever the saved file and the
\* csv, it returns a pair, and when something was raised the pair is
\* (False, diagnostic with the error and its trace).
C5_VerifierNeverRaises ==
    pc = "test" =>
        LET r == test_parser(fs, parser_path, csv_file, dont_write_bytecode)
            mod == import_parser(fs, parser_path, dont_write_bytecode)
        IN  /\ ~r.propagates
            /\ (mod.status # "ok" \/ CallParse(mod).status # "ok") =>
                  ~r.ok /\ r.msg.trace /\ r.msg.err # ""

\* C6: when the body of the saved module raises at load time, test_parser
\* returns failure with a diagnostic of that error and the run goes on.
C6_LoadFailureIsAttemptLocal ==
    pc = "test" /\ import_parser(fs, parser_path, dont_write_bytecode).status # "ok" =>
        LET r == test_parser(fs, parser_path, csv_file, dont_write_bytecode)
        IN  /\ ~r.propagates
            /\ ~r.ok
            /\ r.msg = ExceptionMsg(import_parser(fs, parser_path, dont_write_bytecode).err)

\* the equality of the claim: the same columns in the same order, the same
\* row count, and in every position the same value and the same value type
\* (the dtype of the column)
CellwiseSame(P, E) ==
    /\ P.columns = E.columns
    /\ Len(P.rows) = Len(E.rows)
    /\ \A j \in 1..Len(P.columns) : P.dtypes[j] = E.dtypes[j]
    /\ \A i \in 1..Len(P.rows) : \A j \in 1..Len(P.columns) :
          P.rows[i][j] = E.rows[i][j]

\* the same, and the same row labels
ExactlySame(P, E) ==
    /\ CellwiseSame(P, E)
    /\ \A i \in 1..Len(P.rows) : P.index[i] = E.index[i]

OneCellDiffers(P, E) ==
    /\ P.columns = E.columns
    /\ Len(P.rows) = Len(E.rows)
    /\ \E i \in 1..Len(P.rows) : \E j \in 1..Len(P.columns) :
          P.rows[i][j] # E.rows[i][j]

RowCountDiffers(P, E) == Len(P.rows) # Len(E.rows)

ColumnsReordered(P, E) ==
    /\ P.columns # E.columns
    /\ {P.columns[j] : j \in 1..Len(P.columns)} = {E.columns[j] : j \in 1..Len(E.columns)}

\* C7 as stated: success if and only if same columns in order, same row
\* count, same value and value type in every cell.
C7_ExactMatchAsStated ==
    eq.calls >= 1 /\ eq.isTable => (eq.ok <=> CellwiseSame(eq.P, eq.E))

\* C7: when parse returns a table, whichever program the loader ran,
\* test_parser returns success if and only if the produced and the
\* expected table have the same columns in the same order, the same row
\* labels in the same order, the same value type (dtype) in every column
\* and the same value in every cell; a differing cell, an extra or missing
\* row or a reordered column yields failure.
C7_ExactMatch ==
    eq.calls >= 1 /\ eq.isTable =>
        /\ ~eq.raised
        /\ eq.ok <=> ExactlySame(eq.P, eq.E)
        /\ OneCellDiffers(eq.P, eq.E) => ~eq.ok
        /\ RowCountDiffers(eq.P, eq.E) => ~eq.ok
        /\ ColumnsReordered(eq.P, eq.E) => ~eq.ok

C7_Witness ==
    /\ eq.calls >= 1
    /\ eq.isTable
    /\ eq.ok
    /\ Len(eq.P.rows) >= 1
    /\ Len(eq.P.columns) = 2
    /\ eq.msg = EqualsMsg

\* C8: when a run for "icici" ends in Success, the regression test loads
\* the file the run saved and passes.
C8_RegressionTestAgrees ==
    pc = "halt" /\ success /\ target = "icici" =>
        /\ PARSER_PATH = parser_path
        /\ \A child \in BOOLEAN :
              test_icici_parse_equals_csv(fs, IciciDir, csv_file, child).passed

\* C9: run_pytest runs exactly once in a run that reaches Success and never
\* in any other run, and whatever it returns the run stays in Success: it
\* said Success, no exception ends it and it exits with status 0.
C9_HookCannotChangeOutcome ==
    /\ pytest_calls <= 1
    /\ pc = "halt" /\ success => pytest_calls = 1
    /\ ~success => pytest_calls = 0
    /\ pytest_calls = 1 =>
          /\ pc = "halt"
          /\ success
          /\ OutcomeSuccess
          /\ uncaught = ""
          /\ exit_code = 0

C9_Witness == pytest_calls = 1 /\ pytest_rc # 0 /\ pc = "halt"

\* C10: the exit code run_pytest returned is reported: it is the exit
\* status of the process or a line of its output names it.
C10_ExitCodeIsSurfaced ==
    pc = "halt" /\ pytest_calls = 1 =>
        \/ exit_code = pytest_rc
        \/ \E i \in 1..Len(out) : out[i].line = "pytest exit code"

\* nothing of a run has happened yet: no fixture looked up, no request, no
\* write under ROOT, no verification
NothingDone ==
    /\ pdf_path = NoFile
    /\ csv_path = NoFile
    /\ requests = <<>>
    /\ log = <<>>
    /\ fs \in InitialFiles
    /\ tests = 0
    /\ pytest_calls = 0

\* C11: when the credential is absent the process prints the fatal message
\* and ends with a non-zero status, and no fixture lookup, generation
\* request, write of a candidate module or verification ever happens.
C11_MissingCredentialIsFatal ==
    ~api_key =>
        /\ pc \in {"config", "halt"}
        /\ NothingDone
        /\ pc = "halt" => /\ out = <<Line("GROQ_API_KEY missing")>>
                          /\ exit_code # 0

C11_Witness == ~api_key /\ pc = "halt" /\ exit_code = 1

\* the files of a listing with extension ext
FilesOf(listing, ext) == {listing[i] : i \in {k \in 1..Len(listing) : listing[k].ext = ext}}

\* the fixture lookup of this run is over
Located == api_key /\ pc \notin {"config", "args", "locate"}

\* C12: when the folder holds no .pdf or no .csv file the run ends on the
\* error of the locator with a non-zero status before any request and any
\* write of a candidate module; when it holds one of each the locator
\* returns one .pdf and one .csv of the folder and does not raise.
C12_MissingFixtureIsFatal ==
    Located =>
        IF FilesOf(folder, ".pdf") = {} \/ FilesOf(folder, ".csv") = {}
        THEN /\ pc = "halt"
             /\ uncaught = "FileNotFoundError"
             /\ exit_code # 0
             /\ NothingDone
        ELSE /\ uncaught # "FileNotFoundError"
             /\ pdf_path \in FilesOf(folder, ".pdf")
             /\ csv_path \in FilesOf(folder, ".csv")

C12_Witness ==
    /\ pc = "halt"
    /\ uncaught = "FileNotFoundError"
    /\ FilesOf(folder, ".pdf") # {}
    /\ FilesOf(folder, ".csv") = {}

\* the run ended in Success
EndedInSuccess ==
    /\ pc = "halt"
    /\ success
    /\ OutcomeSuccess
    /\ uncaught = ""

\* the credential is there, the folder holds a pdf and a csv, and the
\* header of the csv parses
ValidStart ==
    /\ api_key
    /\ ~find_data_paths(folder).raises
    /\ ~ReadHeaderRaises(csv_file)

\* C13: with a credential and a valid fixture, a run that has ended has
\* ended in Success or in Exhausted: there is no other end.
C13_EndsInSuccessOrExhausted ==
    pc = "halt" /\ ValidStart => EndedInSuccess \/ Exhausted

\* C14: a run that ends in Exhausted exits with status 0, and a run exits
\* with a non-zero status only for a missing credential or a fixture that
\* cannot be resolved: no failure inside an attempt gives a non-zero status.
C14_ExitStatusSeparatesFatal ==
    pc = "halt" =>
        /\ Exhausted => exit_code = 0
        /\ exit_code # 0 => ~ValidStart
        /\ requests # <<>> => exit_code = 0

\* where the fence markers of a text are
FencesOf(s) == {i \in 1..Len(s) : s[i] = Fence}

IsTag(tok) == tok \in {TagPython, TagOther}

\* where the interior of the block opened by the fence at i starts: after
\* the newline that ends the opening line, with any or no tag on it; 0 when
\* the opening line is not of that form
InteriorStart(s, i) ==
    IF i + 1 <= Len(s) /\ s[i + 1] = NL THEN i + 2
    ELSE IF i + 2 <= Len(s) /\ IsTag(s[i + 1]) /\ s[i + 2] = NL THEN i + 3
    ELSE 0

\* the text holds exactly one fenced block
SingleFenced(s) ==
    /\ Cardinality(FencesOf(s)) = 2
    /\ InteriorStart(s, Min(FencesOf(s))) # 0

\* the text between the opening line and the closing fence
Interior(s) ==
    SubSeq(s, InteriorStart(s, Min(FencesOf(s))),
           (CHOOSE k \in FencesOf(s) : k # Min(FencesOf(s))) - 1)

\* C15: when the text returned for an attempt holds a single fenced block,
\* with any or no language tag, the saved file is the interior of the block
\* without fence markers and with one trailing newline; when it holds no
\* fence the saved file is the text with its trailing whitespace replaced
\* by one newline.
C15_CodeExtraction ==
    pc = "test" =>
        /\ SingleFenced(code) => fs[parser_path].text = Strip(Interior(code)) \o <<NL>>
        /\ FencesOf(code) = {} => fs[parser_path].text = RStrip(code) \o <<NL>>

\* what parse of the module import_parser gives returns
Produced == CallParse(import_parser(fs, parser_path, dont_write_bytecode))

\* test_parser is about to run on a module whose parse returns a table that
\* is not the expected one
MismatchCase ==
    /\ pc = "test"
    /\ import_parser(fs, parser_path, dont_write_bytecode).status = "ok"
    /\ Produced.status = "ok"
    /\ Produced.isTable
    /\ ~ReadCsvRaises(csv_file)
    /\ Produced.df # csv_file.df

\* the diagnostic of the claim: a mismatch, the expected and the produced
\* (rows, columns)
ShapeDiagnostic(E, P) ==
    [kind |-> "Mismatch in DataFrames", err |-> "", trace |-> FALSE,
     expected |-> <<Len(E.rows), Len(E.columns)>>,
     got |-> <<Len(P.rows), Len(P.columns)>>]

C16_Diagnostic ==
    /\ MismatchCase =>
          LET r == test_parser(fs, parser_path, csv_file, dont_write_bytecode)
          IN  /\ ~r.propagates
              /\ ~r.ok
              /\ r.msg = ShapeDiagnostic(csv_file.df, Produced.df)
    /\ pc = "save" /\ error_summary # EmptyMsg =>
          requests[Len(requests)].last_error = error_summary

C16_Retry ==
    MismatchCase /\ attempt < MaxAttempts =>
        /\ pc' = "ask"
        /\ attempt' = attempt + 1
        /\ error_summary' = ShapeDiagnostic(csv_file.df, Produced.df)

\* C16: when parse returns a table that is not the expected one, test_parser
\* returns failure with a diagnostic that states the mismatch and gives the
\* expected and the produced shape, and with attempts left the next
\* generation request carries that diagnostic.
C16_MismatchDiagnostic == [](C16_Diagnostic) /\ [][C16_Retry]_vars

\* one row expected, none produced, and the retry carries it
C16_Witness ==
    /\ Len(requests) >= 2
    /\ requests[2].last_error.kind = "Mismatch in DataFrames"
    /\ requests[2].last_error.expected = <<1, 2>>
    /\ requests[2].last_error.got = <<0, 2>>

\* the two calls gave the same result: the same boolean, or no return at
\* all both times
C17_SameResult ==
    eq.calls = 2 => /\ eq.raised2 = eq.raised
                    /\ eq.ok2 = eq.ok

\* each call loaded the module from the source file, and the first call
\* left nothing for the second: the files were after it as before it
C17_ReloadsAndKeepsNothing ==
    eq.calls = 2 => /\ ~eq.bytecode
                    /\ ~eq.bytecode2
                    /\ ~eq.left

\* C17: test_parser called twice in a row on the same saved module and
\* the same csv gives the same result both times, because each call
\* reloads the module from the file and keeps no state from the call
\* before.
C17_VerifyTwiceSameResult == C17_SameResult /\ C17_ReloadsAndKeepsNothing

\* the code the verification of this attempt runs: what get_code gives for
\* the saved file, the empty text when the file does not compile
Loaded == get_code(fs, parser_path, dont_write_bytecode).code

C18_OneFile ==
    /\ CandidateFiles \subseteq {ParserPath(target)}
    /\ pc \in {"ask", "save"} => NumSaved = attempt - 1 /\ tests = attempt - 1
    /\ pc = "save" => Len(requests) = attempt
    /\ pc = "test" =>
          /\ NumSaved = attempt
          /\ tests = attempt - 1
          /\ Len(requests) = attempt
          /\ parser_path = ParserPath(target)
          /\ CandidateFiles = {parser_path}
          /\ fs[parser_path].text = Strip(CleanCode(code)) \o <<NL>>
    /\ success => CandidateFiles = {parser_path}

\* what the verification of attempt n loads is the code of completion n
C18_LoadsThisAttempt ==
    pc = "test" /\ Loaded # <<>> => Loaded = Strip(CleanCode(code)) \o <<NL>>

C18_WrittenOnlyBySave ==
    /\ CandidateFs' # CandidateFs => pc = "save" /\ pc' = "test"
    /\ success' /\ ~success => Loaded = fs[parser_path].text

\* C18: there is at most one candidate module file, at the path the target
\* gives; it is written once per attempt, by the save step, between the
\* previous verification and this one; when attempt n is verified the file
\* holds the code extracted from the completion of attempt n and that code,
\* never the code of an earlier attempt, is what the verification loads; at
\* Success the file on disk is the one that passed.
C18_CandidateFile ==
    [](C18_OneFile /\ C18_LoadsThisAttempt) /\ [][C18_WrittenOnlyBySave]_vars

\* the per-run inputs of a request: everything but the attempt number and
\* the prior diagnostic
RunInputs(req) == <<req.bank, req.columns, req.pdf>>

C19_SameInputs ==
    /\ pc \in {"ask", "save", "test", "report", "pytest"} =>
          /\ target = NormalizeTarget(argv)
          /\ pdf_path = find_data_paths(folder).pdf
          /\ csv_path = find_data_paths(folder).csv
          /\ expected_cols = csv_file.df.columns
    /\ \A n \in 1..Len(requests) :
          /\ RunInputs(requests[n]) = RunInputs(requests[1])
          /\ requests[n].bank = UpperTarget(NormalizeTarget(argv))
          /\ requests[n].columns = csv_file.df.columns
          /\ requests[n].pdf = <<find_data_paths(folder).pdf.name, ".pdf">>

C19_Frozen ==
    pc \in {"ask", "save", "test", "report", "pytest"} =>
        /\ target' = target
        /\ pdf_path' = pdf_path
        /\ csv_path' = csv_path
        /\ expected_cols' = expected_cols
        /\ env' = env

\* C19: the target, the fixture pair and the expected columns are resolved
\* before attempt 1 and no attempt changes them; every generation request
\* of a run carries the same target, column list and sample name, and only
\* the attempt number and the prior diagnostic differ between requests.
C19_InputsAreFrozen == [](C19_SameInputs) /\ [][C19_Frozen]_vars

C19_Witness ==
    /\ Len(requests) = MaxAttempts
    /\ requests[1].last_error # requests[2].last_error
    /\ requests[2].last_error # requests[3].last_error
    /\ tests = MaxAttempts

====
